---------------------------- MODULE Spec2Model ----------------------------
(***************************************************************************)
(* A model of the AutoScribe analysis pipeline (src/core): the temporal    *)
(* model (Note, PianoRoll), the rhythm quantizer, the chord detector, the  *)
(* voice separator, the hand assigner and the difficulty adjuster.         *)
(*                                                                         *)
(* Times are exact rationals, held as integer ticks: one second is         *)
(* TicksPerSecond ticks, chosen so that every grid spacing, swing delay,   *)
(* blend and threshold of the code is a whole number of ticks.  Python     *)
(* lists are objects: `heap' holds them, and a roll refers to its note     *)
(* list by its index in `heap', so that sharing and in-place sorting are   *)
(* visible.  Notes are never assigned to after construction anywhere in    *)
(* src/core, so they are held as values.                                   *)
(***************************************************************************)
EXTENDS Integers, Sequences, FiniteSets, Bags, TLC

VARIABLES
    heap,       \* the list objects: heap[ref] is the note sequence of list ref
    roll,       \* the caller's PianoRoll (its notes field is a ref into heap)
    origin,     \* how the caller's roll was made: "input", or the call that returned it
    quantizer,  \* the RhythmQuantizer's config, or None when none was constructed
    op,         \* the last call made
    cfg,        \* the configuration the last call ran with
    out,        \* the rolls the last call returned, in the order of its result tuple
    chords,     \* the chords the last detect_chords call returned
    assigned,   \* the HandAssignments of the last assign_hands call, by group
    path,       \* the branch the last adjust_difficulty call took
    analysed,   \* the level the last difficulty analysis found, or "none"
    chord_type, \* what the last identify_chord_type call returned, or "none"
    note_made,  \* the Note the last Note(...) call made, or None
    step_notes, \* the note list the last simplification step returned
    raised      \* the exception the last call raised, or "none"

vars == <<heap, roll, origin, quantizer, op, cfg, out, chords, assigned,
          path, analysed, chord_type, note_made, step_notes,
          raised>>

\* Python's None, where a record may stand.
None == [none |-> TRUE]

(***************************************************************************)
(* Units.                                                                  *)
(***************************************************************************)
TicksPerSecond == 20 * 1536

Sec(num, den) == (num * TicksPerSecond) \div den

Max(a, b) == IF a >= b THEN a ELSE b
Min(a, b) == IF a <= b THEN a ELSE b
Abs(a) == IF a >= 0 THEN a ELSE 0 - a

RECURSIVE SeqToBag(_)
SeqToBag(s) ==
    IF s = <<>> THEN EmptyBag ELSE SetToBag({Head(s)}) (+) SeqToBag(Tail(s))

RECURSIVE Concat(_)
Concat(ss) == IF ss = <<>> THEN <<>> ELSE Head(ss) \o Concat(Tail(ss))

Filter(s, Keep(_)) == SelectSeq(s, Keep)

(***************************************************************************)
(* sorted(xs, key=...): Python's sort is stable, also with reverse=True.   *)
(* Insertion sort on <<key, item>> pairs; keys are integers.               *)
(***************************************************************************)
RECURSIVE InsertPair(_, _)
InsertPair(x, s) ==
    IF s = <<>> THEN <<x>>
    ELSE IF x[1] < Head(s)[1] THEN <<x>> \o s
    ELSE <<Head(s)>> \o InsertPair(x, Tail(s))

RECURSIVE SortPairs(_)
SortPairs(s) ==
    IF s = <<>> THEN <<>>
    ELSE InsertPair(s[Len(s)], SortPairs(SubSeq(s, 1, Len(s) - 1)))

\* sorted(s, key=Key)
SortedBy(s, Key(_)) ==
    LET sorted == SortPairs([i \in 1..Len(s) |-> <<Key(s[i]), s[i]>>])
    IN  [i \in 1..Len(s) |-> sorted[i][2]]

\* sorted(s, key=Key, reverse=True)
SortedByReverse(s, Key(_)) ==
    LET sorted == SortPairs([i \in 1..Len(s) |-> <<0 - Key(s[i]), s[i]>>])
    IN  [i \in 1..Len(s) |-> sorted[i][2]]

(***************************************************************************)
(* data_structures.py                                                      *)
(***************************************************************************)
NoteType == {"melody", "harmony", "bass", "unknown"}

\* A validation that leaves the velocity unchecked.
NoteValid_velocity_unchecked(n) ==
    /\ 0 <= n.pitch /\ n.pitch <= 127
    /\ n.start >= 0
    /\ n.end > n.start

\* Note.__post_init__: the validation a Note must pass to be constructed.
NoteValid(n) ==
    /\ 0 <= n.pitch /\ n.pitch <= 127
    /\ n.start >= 0
    /\ n.end > n.start
    /\ 0 <= n.velocity /\ n.velocity <= 127

Note(p, s, e, v, t) ==
    [pitch |-> p, start |-> s, end |-> e, velocity |-> v, note_type |-> t]

duration(n) == n.end - n.start

\* The key (n.start, n.pitch) as one integer: pitches are below 128.
TimePitchKey(n) == n.start * 128 + n.pitch

\* A roll that keeps the order it was given.
sort_by_time_skipped(notes) == notes

\* PianoRoll.sort_by_time
sort_by_time(notes) == SortedBy(notes, TimePitchKey)

\* PianoRoll.__post_init__ on the list object ref of heap h: the list is
\* sorted in place and the roll refers to it (no copy is taken).
PianoRoll(h, ref, tempo, ts, ks) ==
    [heap |-> [h EXCEPT ![ref] = sort_by_time(h[ref])],
     roll |-> [notes |-> ref, tempo |-> tempo,
               time_signature |-> ts, key_signature |-> ks]]

\* A new list object holding notes.
NewList(h, notes) == [heap |-> Append(h, notes), ref |-> Len(h) + 1]

\* PianoRoll(notes=<a fresh list>, ...) as every stage builds its result.
NewRoll(h, notes, tempo, ts, ks) ==
    LET l == NewList(h, notes) IN PianoRoll(l.heap, l.ref, tempo, ts, ks)

get_duration(notes) ==
    IF notes = <<>> THEN 0
    ELSE CHOOSE m \in {notes[i].end : i \in 1..Len(notes)} :
            \A i \in 1..Len(notes) : notes[i].end <= m

(***************************************************************************)
(* rhythm_quanitzer.py                                                     *)
(*                                                                         *)
(* strength is held in halves (strength = cfg.strength / StrengthDen),     *)
(* swing in quarters, min_duration in sixteenths of a beat.                *)
(***************************************************************************)
StrengthDen == 1 + 1
SwingDen == 2 + 2
MinDurationDen == 8 + 8

\* RhythmQuantizer.GRID_SIZES: the grid is 1 / GRID_SIZES[name] of a beat.
GRID_SIZES ==
    [whole |-> 1, half |-> 2, quarter |-> 4, 8th |-> 8, 16th |-> 16,
     32nd |-> 32, triplet |-> 12]

\* _validate_config without its check of swing.
_validate_config_swing_unchecked(c) ==
    /\ c.grid_resolution \in DOMAIN GRID_SIZES
    /\ 0 <= c.strength /\ c.strength <= StrengthDen

\* RhythmQuantizer._validate_config
_validate_config(c) ==
    /\ c.grid_resolution \in DOMAIN GRID_SIZES
    /\ 0 <= c.strength /\ c.strength <= StrengthDen
    /\ 0 <= c.swing /\ 2 * c.swing <= SwingDen

\* A quantizer that truncates (int()) where the code rounds.
round_truncating(n, d) == n \div d

\* Python's round(): to the nearest integer, a tie to the even one.
round(n, d) ==
    LET q == n \div d
        r == n % d
    IN  IF 2 * r < d THEN q
        ELSE IF 2 * r > d THEN q + 1
        ELSE IF q % 2 = 0 THEN q ELSE q + 1

\* RhythmQuantizer._apply_swing
_apply_swing(c, time, grid_duration, beat_duration) ==
    LET beat_pair_duration == grid_duration * 2
        in_pair == time % beat_pair_duration
    IN  IF 4 * beat_pair_duration < 10 * in_pair
           /\ 10 * in_pair < 6 * beat_pair_duration
        THEN time + (c.swing * grid_duration) \div SwingDen
        ELSE time

\* _quantize_time with the two weights of the blend exchanged.
_quantize_time_blend_exchanged(c, time, grid_duration, beat_duration) ==
    LET grid_position == round(time, grid_duration)
        snapped == grid_position * grid_duration
        snapped_time ==
            IF c.swing > 0
            THEN _apply_swing(c, snapped, grid_duration, beat_duration)
            ELSE snapped
        quantized_time ==
            (time * c.strength + snapped_time * (StrengthDen - c.strength))
                \div StrengthDen
    IN  Max(0, quantized_time)

\* RhythmQuantizer._quantize_time
_quantize_time(c, time, grid_duration, beat_duration) ==
    LET grid_position == round(time, grid_duration)
        snapped == grid_position * grid_duration
        snapped_time ==
            IF c.swing > 0
            THEN _apply_swing(c, snapped, grid_duration, beat_duration)
            ELSE snapped
        quantized_time ==
            (time * (StrengthDen - c.strength) + snapped_time * c.strength)
                \div StrengthDen
    IN  Max(0, quantized_time)

\* RhythmQuantizer._quantize_note: the fields handed to Note(...); the
\* constructor's validation is applied by quantize.
_quantize_note(c, note, grid_duration, beat_duration) ==
    LET quantized_start ==
            _quantize_time(c, note.start, grid_duration, beat_duration)
        snapped_end ==
            _quantize_time(c, note.end, grid_duration, beat_duration)
        min_duration_seconds ==
            (c.min_duration * beat_duration) \div MinDurationDen
        quantized_end ==
            IF c.quantize_offsets
            THEN IF snapped_end - quantized_start < min_duration_seconds
                 THEN quantized_start + min_duration_seconds
                 ELSE snapped_end
            ELSE quantized_start + duration(note)
    IN  Note(note.pitch, quantized_start, quantized_end, note.velocity,
             note.note_type)

BeatDuration(tempo) == (60 * TicksPerSecond) \div tempo

GridDuration(c, tempo) == BeatDuration(tempo) \div GRID_SIZES[c.grid_resolution]

\* The notes quantize builds, in input order (before the result is sorted).
QuantizedNotes(c, notes, tempo) ==
    [i \in 1..Len(notes) |->
        _quantize_note(c, notes[i], GridDuration(c, tempo), BeatDuration(tempo))]

\* A quantize that writes the quantized notes into the list of the roll
\* it was given and returns that roll.
quantize_in_place(c, h, r) ==
    LET quantized_notes == QuantizedNotes(c, h[r.notes], r.tempo)
    IN  IF \E i \in 1..Len(quantized_notes) : ~NoteValid(quantized_notes[i])
        THEN [heap |-> h, rolls |-> <<>>, raised |-> "ValueError"]
        ELSE [heap |-> [h EXCEPT ![r.notes] = sort_by_time(quantized_notes)],
              rolls |-> <<r>>, raised |-> "none"]

\* RhythmQuantizer.quantize on roll r of heap h:
\* [heap, rolls, raised]; an empty roll is returned as it is.
quantize(c, h, r) ==
    IF h[r.notes] = <<>>
    THEN [heap |-> h, rolls |-> <<r>>, raised |-> "none"]
    ELSE LET quantized_notes == QuantizedNotes(c, h[r.notes], r.tempo)
         IN  IF \E i \in 1..Len(quantized_notes) : ~NoteValid(quantized_notes[i])
             THEN [heap |-> h, rolls |-> <<>>, raised |-> "ValueError"]
             ELSE LET made == NewRoll(h, quantized_notes, r.tempo,
                                      r.time_signature, r.key_signature)
                  IN  [heap |-> made.heap, rolls |-> <<made.roll>>,
                       raised |-> "none"]

(***************************************************************************)
(* Grouping of a start-sorted run of notes by an anchor: a note joins the  *)
(* current group while its start is within width of the group's first     *)
(* note, and opens a new group otherwise (HandAssigner._group_by_time,     *)
(* VoiceSeparator._create_time_windows).                                   *)
(***************************************************************************)
StartKey(n) == n.start
PitchKey(n) == n.pitch
VelocityKey(n) == n.velocity

RECURSIVE AnchoredGroups(_, _, _)
AnchoredGroups(sorted_notes, groups, width) ==
    IF sorted_notes = <<>> THEN groups
    ELSE LET note == Head(sorted_notes)
             current == groups[Len(groups)]
         IN  IF groups # <<>> /\ note.start - current[1].start <= width
             THEN AnchoredGroups(Tail(sorted_notes),
                                 [groups EXCEPT ![Len(groups)] = Append(current, note)],
                                 width)
             ELSE AnchoredGroups(Tail(sorted_notes), Append(groups, <<note>>), width)

(***************************************************************************)
(* hand_assigner.py                                                        *)
(*                                                                         *)
(* A difficulty is held in sixtieths (difficulty = d / DifficultyDen).     *)
(***************************************************************************)
DifficultyDen == 6 * 10

HandAssignmentConfig(split, stretch, per_hand) ==
    [default_split_pitch |-> split, max_hand_stretch |-> stretch,
     max_notes_per_hand |-> per_hand,
     min_right_hand_pitch |-> 48, max_left_hand_pitch |-> 72]

HandAssignment(n, hand, difficulty) ==
    [note |-> n, hand |-> hand, difficulty |-> difficulty]

\* HandAssigner._group_by_time, threshold = 0.05
_group_by_time(notes) ==
    AnchoredGroups(SortedBy(notes, StartKey), <<>>, Sec(5, 100))

\* HandAssigner._assign_single_note
_assign_single_note(c, note) ==
    HandAssignment(note,
                   IF note.pitch < c.default_split_pitch THEN "left" ELSE "right",
                   0)

\* HandAssigner._find_split_point: the (0-based) index of the first note
\* nearest to the split pitch, moved off index 0.
_find_split_point(c, sorted_notes) ==
    IF Len(sorted_notes) <= 1 THEN 0
    ELSE LET distance(i) == Abs(sorted_notes[i].pitch - c.default_split_pitch)
             best == CHOOSE i \in 1..Len(sorted_notes) :
                        /\ \A j \in 1..Len(sorted_notes) : distance(i) <= distance(j)
                        /\ \A j \in 1..(i - 1) : distance(j) > distance(i)
             best_idx == best - 1
         IN  IF best_idx = 0 /\ Len(sorted_notes) > 1 THEN 1
             ELSE IF best_idx = Len(sorted_notes) THEN Len(sorted_notes) - 1
             ELSE best_idx

\* HandAssigner._get_expected_hand
_get_expected_hand(c, note) ==
    IF note.pitch >= c.default_split_pitch THEN "right" ELSE "left"

\* The penalties of _calculate_difficulty, in sixtieths, given the notes the
\* pitch rule expects in the same hand.
Penalties(c, note, hand, same_hand_notes) ==
    LET pitches == {same_hand_notes[i].pitch : i \in 1..Len(same_hand_notes)}
        stretch ==
            (CHOOSE hi \in pitches : \A p \in pitches : p <= hi)
            - (CHOOSE lo \in pitches : \A p \in pitches : lo <= p)
        for_stretch ==
            IF Len(same_hand_notes) > 1 /\ stretch > c.max_hand_stretch
            THEN ((stretch - c.max_hand_stretch) * DifficultyDen) \div 12
            ELSE 0
        for_polyphony ==
            IF Len(same_hand_notes) > c.max_notes_per_hand
            THEN (3 * DifficultyDen) \div 10 ELSE 0
        for_range ==
            IF \/ hand = "right" /\ note.pitch < c.min_right_hand_pitch
               \/ hand = "left" /\ note.pitch > c.max_left_hand_pitch
            THEN (2 * DifficultyDen) \div 10 ELSE 0
    IN  Min(for_stretch + for_polyphony + for_range, DifficultyDen)

\* HandAssigner._calculate_difficulty
_calculate_difficulty(c, note, hand, all_notes) ==
    LET IsSameHand(n) == _get_expected_hand(c, n) = hand
    IN  Penalties(c, note, hand, Filter(all_notes, IsSameHand))

\* A redistribution that takes the notes from one hand and gives them to
\* neither.
Crossed_to_either(assignments, overloaded, to_hand) ==
    [i \in 1..Len(assignments) |->
        IF \E k \in 1..Min(2, Len(overloaded)) : overloaded[k] = i
        THEN [assignments[i] EXCEPT !.hand = "either"]
        ELSE assignments[i]]

\* The assignments _redistribute_notes changes: the first two of the
\* sorted assignments of from_hand, by index.
Crossed(assignments, overloaded, to_hand) ==
    [i \in 1..Len(assignments) |->
        IF \E k \in 1..Min(2, Len(overloaded)) : overloaded[k] = i
        THEN [assignments[i] EXCEPT
                 !.hand = to_hand,
                 !.difficulty = @ + DifficultyDen \div 10]
        ELSE assignments[i]]

\* A redistribution that takes the notes from the far end of the hand:
\* the lowest of the left hand, the highest of the right hand.
_redistribute_notes_from_far_end(assignments, from_hand, to_hand) ==
    LET IsFrom(i) == assignments[i].hand = from_hand
        pitch_at(i) == assignments[i].note.pitch
        indices == Filter([i \in 1..Len(assignments) |-> i], IsFrom)
    IN  Crossed(assignments,
                IF to_hand = "right" THEN SortedBy(indices, pitch_at)
                ELSE SortedByReverse(indices, pitch_at),
                to_hand)

\* HandAssigner._redistribute_notes: the (up to) two assignments of
\* from_hand with the most suitable pitches change hand, in place.
_redistribute_notes(assignments, from_hand, to_hand) ==
    LET IsFrom(i) == assignments[i].hand = from_hand
        pitch_at(i) == assignments[i].note.pitch
        indices == Filter([i \in 1..Len(assignments) |-> i], IsFrom)
    IN  Crossed(assignments,
                IF to_hand = "right" THEN SortedByReverse(indices, pitch_at)
                ELSE SortedBy(indices, pitch_at),
                to_hand)

Count(assignments, hand) ==
    Cardinality({i \in 1..Len(assignments) : assignments[i].hand = hand})

\* The second check of _validate_and_adjust, on the count taken before
\* any note was moved.
LeftChecked(c, left_count, assignments) ==
    IF left_count > c.max_notes_per_hand
    THEN _redistribute_notes(assignments, "left", "right")
    ELSE assignments

\* HandAssigner._validate_and_adjust: both counts are taken before any
\* note is moved.
_validate_and_adjust(c, assignments) ==
    LeftChecked(c, Count(assignments, "left"),
                IF Count(assignments, "right") > c.max_notes_per_hand
                THEN _redistribute_notes(assignments, "right", "left")
                ELSE assignments)

\* The loop of _assign_group over the pitch-sorted notes.
SplitAt(c, sorted_notes, split_idx) ==
    [i \in 1..Len(sorted_notes) |->
        HandAssignment(sorted_notes[i],
            IF i - 1 < split_idx THEN "left" ELSE "right",
            _calculate_difficulty(c, sorted_notes[i],
                IF i - 1 < split_idx THEN "left" ELSE "right", sorted_notes))]

SplitSorted(c, sorted_notes) ==
    SplitAt(c, sorted_notes, _find_split_point(c, sorted_notes))

\* The assignments of a group as the split makes them, before the check
\* of playability.
SplitAssignments(c, notes) == SplitSorted(c, SortedBy(notes, PitchKey))

\* HandAssigner._assign_group
_assign_group(c, notes) ==
    IF notes = <<>> THEN <<>>
    ELSE IF Len(notes) = 1 THEN <<_assign_single_note(c, notes[1])>>
    ELSE _validate_and_adjust(c, SplitAssignments(c, notes))

NotesOfHand(assignments, hand) ==
    LET IsHand(a) == a.hand = hand
        of_hand == Filter(assignments, IsHand)
    IN  [i \in 1..Len(of_hand) |-> of_hand[i].note]

\* The two rolls assign_hands builds of the assignments of the groups.
HandRolls(h, r, groups) ==
    LET right_hand == NewRoll(h, NotesOfHand(Concat(groups), "right"),
                              r.tempo, r.time_signature, r.key_signature)
        left_hand == NewRoll(right_hand.heap, NotesOfHand(Concat(groups), "left"),
                             r.tempo, r.time_signature, r.key_signature)
    IN  [heap |-> left_hand.heap,
         rolls |-> <<right_hand.roll, left_hand.roll>>,
         groups |-> groups]

AssignedGroups(c, time_groups) ==
    [g \in 1..Len(time_groups) |-> _assign_group(c, time_groups[g])]

\* HandAssigner.assign_hands on roll r of heap h: [heap, rolls, groups];
\* rolls is <<right_hand, left_hand>>.  For an empty roll one new roll is
\* returned twice.
assign_hands(c, h, r) ==
    IF h[r.notes] = <<>>
    THEN LET empty == NewRoll(h, <<>>, r.tempo, r.time_signature, r.key_signature)
         IN  [heap |-> empty.heap, rolls |-> <<empty.roll, empty.roll>>,
              groups |-> <<>>]
    ELSE HandRolls(h, r, AssignedGroups(c, _group_by_time(h[r.notes])))

(***************************************************************************)
(* voice_separator.py                                                      *)
(***************************************************************************)
VoiceSeparationConfig(melody, bass, hints, polyphony) ==
    [melody_pitch_threshold |-> melody, bass_pitch_threshold |-> bass,
     use_velocity_hints |-> hints, max_melody_polyphony |-> polyphony]

\* VoiceSeparator._mark_as
_mark_as(note, note_type) ==
    Note(note.pitch, note.start, note.end, note.velocity, note_type)

\* VoiceSeparator._create_time_windows, window_size = 0.1
_create_time_windows(notes) ==
    AnchoredGroups(SortedBy(notes, StartKey), <<>>, Sec(1, 10))

Marked(notes, note_type) ==
    [i \in 1..Len(notes) |-> _mark_as(notes[i], note_type)]

\* A classification that tests for the bass note independently of the
\* melody test.
ClassifiedBy_bass_unguarded(c, notes, melody_candidates, bass_note) ==
    LET IsMelody(n) == \E j \in 1..Len(melody_candidates) : melody_candidates[j] = n
        IsBass(n) == n = bass_note /\ n.pitch <= c.bass_pitch_threshold
        IsHarmony(n) == ~IsMelody(n) /\ ~IsBass(n)
    IN  [melody |-> Marked(Filter(notes, IsMelody), "melody"),
         harmony |-> Marked(Filter(notes, IsHarmony), "harmony"),
         bass |-> Marked(Filter(notes, IsBass), "bass")]

\* The branches of _classify_window on a window of several notes, given
\* its melody candidates and its lowest note.  Membership
\* (note in melody_candidates, note == bass_note) is equality of notes.
ClassifiedBy(c, notes, melody_candidates, bass_note) ==
    LET IsMelody(n) == \E j \in 1..Len(melody_candidates) : melody_candidates[j] = n
        IsBass(n) ==
            ~IsMelody(n) /\ n = bass_note /\ n.pitch <= c.bass_pitch_threshold
        IsHarmony(n) == ~IsMelody(n) /\ ~IsBass(n)
        bass == Marked(Filter(notes, IsBass), "bass")
        misplaced == bass # <<>> /\ bass[1].pitch > c.bass_pitch_threshold + 12
    IN  [melody |-> Marked(Filter(notes, IsMelody), "melody"),
         harmony |-> Marked(Filter(notes, IsHarmony), "harmony")
                     \o (IF misplaced THEN bass ELSE <<>>),
         bass |-> IF misplaced THEN <<>> ELSE bass]

\* The melody candidates of a window: the highest notes, of which the two
\* loudest when velocity hints are used.
MelodyCandidates(c, highest) ==
    IF c.use_velocity_hints
    THEN SubSeq(SortedByReverse(highest, VelocityKey), 1, Min(2, Len(highest)))
    ELSE highest

ClassifiedSorted(c, notes, sorted_by_pitch) ==
    ClassifiedBy(c, notes,
                 MelodyCandidates(c, SubSeq(sorted_by_pitch, 1,
                                            Min(c.max_melody_polyphony,
                                                Len(sorted_by_pitch)))),
                 sorted_by_pitch[Len(sorted_by_pitch)])

\* VoiceSeparator._classify_window: [melody, harmony, bass].
_classify_window(c, notes) ==
    IF notes = <<>> THEN [melody |-> <<>>, harmony |-> <<>>, bass |-> <<>>]
    ELSE IF Len(notes) = 1
    THEN IF notes[1].pitch >= c.melody_pitch_threshold
         THEN [melody |-> Marked(notes, "melody"), harmony |-> <<>>, bass |-> <<>>]
         ELSE IF notes[1].pitch <= c.bass_pitch_threshold
         THEN [melody |-> <<>>, harmony |-> <<>>, bass |-> Marked(notes, "bass")]
         ELSE [melody |-> <<>>, harmony |-> Marked(notes, "harmony"), bass |-> <<>>]
    ELSE ClassifiedSorted(c, notes, SortedByReverse(notes, PitchKey))

\* The three rolls separate_voices builds of the classified windows.
VoiceRolls(h, r, classified) ==
    LET Of(voice) == Concat([w \in 1..Len(classified) |-> classified[w][voice]])
        melody_roll == NewRoll(h, Of("melody"),
                               r.tempo, r.time_signature, r.key_signature)
        harmony_roll == NewRoll(melody_roll.heap, Of("harmony"),
                                r.tempo, r.time_signature, r.key_signature)
        bass_roll == NewRoll(harmony_roll.heap, Of("bass"),
                             r.tempo, r.time_signature, r.key_signature)
    IN  [heap |-> bass_roll.heap,
         rolls |-> <<melody_roll.roll, harmony_roll.roll, bass_roll.roll>>]

ClassifiedWindows(c, time_windows) ==
    [w \in 1..Len(time_windows) |-> _classify_window(c, time_windows[w])]

\* VoiceSeparator.separate_voices on roll r of heap h: [heap, rolls];
\* rolls is <<melody_roll, harmony_roll, bass_roll>>.  For an empty roll
\* one new roll is returned three times.
separate_voices(c, h, r) ==
    IF h[r.notes] = <<>>
    THEN LET empty == NewRoll(h, <<>>, r.tempo, r.time_signature, r.key_signature)
         IN  [heap |-> empty.heap,
              rolls |-> <<empty.roll, empty.roll, empty.roll>>]
    ELSE VoiceRolls(h, r, ClassifiedWindows(c, _create_time_windows(h[r.notes])))

(***************************************************************************)
(* chord_detector.py                                                       *)
(***************************************************************************)
ChordDetectionConfig(threshold, size, analyze, merge, arpeggio) ==
    [simultaneity_threshold |-> threshold, min_chord_size |-> size,
     analyze_chord_types |-> analyze, merge_arpeggios |-> merge,
     arpeggio_threshold |-> arpeggio]

\* ChordDetectionConfig(): 50 ms, chords of two notes or more, no merging.
DefaultChordDetectionConfig ==
    ChordDetectionConfig(Sec(5, 100), 2, TRUE, FALSE, Sec(15, 100))

NoRoot == -1

Chord(notes, root_pitch) == [notes |-> notes, root_pitch |-> root_pitch]

MinOf(S) == CHOOSE m \in S : \A x \in S : m <= x
MaxOf(S) == CHOOSE m \in S : \A x \in S : x <= m

\* Chord.start
ChordStart(chord) ==
    IF chord.notes = <<>> THEN 0
    ELSE MinOf({chord.notes[i].start : i \in 1..Len(chord.notes)})

\* ChordDetector._group_by_onset: the buckets in the order they were
\* opened, each [onset, notes]; a note joins the first bucket whose onset
\* is within the threshold of its start.
RECURSIVE _group_by_onset(_, _, _)
_group_by_onset(c, notes, groups) ==
    IF notes = <<>> THEN groups
    ELSE LET note == Head(notes)
             Near(g) == Abs(note.start - groups[g].onset) <= c.simultaneity_threshold
         IN  IF \E g \in 1..Len(groups) : Near(g)
             THEN LET g == MinOf({k \in 1..Len(groups) : Near(k)})
                  IN  _group_by_onset(c, Tail(notes),
                          [groups EXCEPT ![g].notes = Append(@, note)])
             ELSE _group_by_onset(c, Tail(notes),
                      Append(groups, [onset |-> note.start, notes |-> <<note>>]))

\* ChordDetector._find_root
_find_root(notes) ==
    IF Len(notes) < 2
    THEN IF notes = <<>> THEN NoRoot ELSE notes[1].pitch
    ELSE MinOf({notes[i].pitch : i \in 1..Len(notes)})

\* ChordDetector._create_chord
_create_chord(c, notes) ==
    LET by_pitch == SortedBy(notes, PitchKey)
    IN  Chord(by_pitch, IF c.analyze_chord_types THEN _find_root(by_pitch) ELSE NoRoot)

\* A merge that gathers the notes of the chords as they are.
_merge_chord_group_starts_kept(chord_group) ==
    IF Len(chord_group) = 1 THEN chord_group[1]
    ELSE Chord(Concat([k \in 1..Len(chord_group) |-> chord_group[k].notes]),
               NoRoot)

\* ChordDetector._merge_chord_group
_merge_chord_group(chord_group) ==
    IF Len(chord_group) = 1 THEN chord_group[1]
    ELSE LET all_notes == Concat([k \in 1..Len(chord_group) |-> chord_group[k].notes])
             earliest_start ==
                 MinOf({ChordStart(chord_group[k]) : k \in 1..Len(chord_group)})
         IN  Chord([i \in 1..Len(all_notes) |->
                       Note(all_notes[i].pitch, earliest_start, all_notes[i].end,
                            all_notes[i].velocity, all_notes[i].note_type)],
                   NoRoot)

\* ChordDetector._merge_arpeggios: the loop over chords[1:], with the
\* groups closed so far and the group being gathered.
RECURSIVE MergeRuns(_, _, _, _)
MergeRuns(c, rest, merged, current_group) ==
    IF rest = <<>> THEN Append(merged, _merge_chord_group(current_group))
    ELSE LET chord == Head(rest)
             last_chord_time == ChordStart(current_group[Len(current_group)])
         IN  IF ChordStart(chord) - last_chord_time <= c.arpeggio_threshold
             THEN MergeRuns(c, Tail(rest), merged, Append(current_group, chord))
             ELSE MergeRuns(c, Tail(rest),
                            Append(merged, _merge_chord_group(current_group)),
                            <<chord>>)

_merge_arpeggios(c, chord_list) ==
    IF chord_list = <<>> THEN chord_list
    ELSE MergeRuns(c, Tail(chord_list), <<>>, <<chord_list[1]>>)

OnsetKey(group) == group.onset

\* A detection that emits the onset buckets latest first.
detect_chords_latest_first(c, notes) ==
    IF notes = <<>> THEN <<>>
    ELSE LET onset_groups ==
                 SortedByReverse(_group_by_onset(c, notes, <<>>), OnsetKey)
             IsChord(g) == Len(g.notes) >= c.min_chord_size
             kept == Filter(onset_groups, IsChord)
             created == [k \in 1..Len(kept) |-> _create_chord(c, kept[k].notes)]
         IN  IF c.merge_arpeggios THEN _merge_arpeggios(c, created) ELSE created

\* A detection that makes a chord of every onset bucket, whatever its size.
detect_chords_of_any_size(c, notes) ==
    IF notes = <<>> THEN <<>>
    ELSE LET onset_groups == SortedBy(_group_by_onset(c, notes, <<>>), OnsetKey)
             created == [k \in 1..Len(onset_groups) |->
                            _create_chord(c, onset_groups[k].notes)]
         IN  IF c.merge_arpeggios THEN _merge_arpeggios(c, created) ELSE created

\* ChordDetector.detect_chords on a note list
detect_chords(c, notes) ==
    IF notes = <<>> THEN <<>>
    ELSE LET onset_groups == SortedBy(_group_by_onset(c, notes, <<>>), OnsetKey)
             IsChord(g) == Len(g.notes) >= c.min_chord_size
             kept == Filter(onset_groups, IsChord)
             created == [k \in 1..Len(kept) |-> _create_chord(c, kept[k].notes)]
         IN  IF c.merge_arpeggios THEN _merge_arpeggios(c, created) ELSE created

\* ChordDetector.CHORD_TYPES, in the order of the dictionary.
CHORD_TYPES ==
    << [name |-> "major",      pattern |-> <<0, 4, 7>>],
       [name |-> "minor",      pattern |-> <<0, 3, 7>>],
       [name |-> "diminished", pattern |-> <<0, 3, 6>>],
       [name |-> "augmented",  pattern |-> <<0, 4, 8>>],
       [name |-> "major7",     pattern |-> <<0, 4, 7, 11>>],
       [name |-> "minor7",     pattern |-> <<0, 3, 7, 10>>],
       [name |-> "dominant7",  pattern |-> <<0, 4, 7, 10>>],
       [name |-> "sus2",       pattern |-> <<0, 2, 7>>],
       [name |-> "sus4",       pattern |-> <<0, 5, 7>>] >>

\* sorted(S) of a set of integers
RECURSIVE Ascending(_)
Ascending(S) ==
    IF S = {} THEN <<>>
    ELSE <<MinOf(S)>> \o Ascending(S \ {MinOf(S)})

IntKey(x) == x

\* Chord.pitches: the distinct pitches of the chord, ascending.
ChordPitches(chord) ==
    Ascending({chord.notes[i].pitch : i \in 1..Len(chord.notes)})

\* The index of the first chord type from `from' on whose pattern is the
\* interval list, 0 when there is none.
RECURSIVE ExactMatch(_, _)
ExactMatch(intervals, from) ==
    IF from > Len(CHORD_TYPES) THEN 0
    ELSE IF intervals = CHORD_TYPES[from].pattern THEN from
    ELSE ExactMatch(intervals, from + 1)

\* rotated_normalized of the inversion loop: the pattern from position
\* rotation on, then its first notes an octave up, all taken modulo 12
\* and sorted.
RotatedNormalized(pattern, rotation) ==
    LET rotated ==
            SubSeq(pattern, rotation + 1, Len(pattern))
                \o [k \in 1..rotation |-> pattern[k] + 12]
    IN  SortedBy([k \in 1..Len(rotated) |-> rotated[k] % 12], IntKey)

\* The index of the first chord type from `from' on one of whose rotations
\* is the interval list, 0 when there is none.
RECURSIVE InversionMatch(_, _)
InversionMatch(intervals, from) ==
    IF from > Len(CHORD_TYPES) THEN 0
    ELSE IF \E rotation \in 1..(Len(CHORD_TYPES[from].pattern) - 1) :
                intervals = RotatedNormalized(CHORD_TYPES[from].pattern, rotation)
         THEN from
    ELSE InversionMatch(intervals, from + 1)

Inversion(type_name) == type_name \o " (inversion)"

\* The answer of identify_chord_type for an interval list.
TypeOfIntervals(intervals) ==
    IF ExactMatch(intervals, 1) # 0
    THEN CHORD_TYPES[ExactMatch(intervals, 1)].name
    ELSE IF InversionMatch(intervals, 1) # 0
    THEN Inversion(CHORD_TYPES[InversionMatch(intervals, 1)].name)
    ELSE "unknown"

\* An identification that keeps the intervals in their octaves.
identify_chord_type_octaves_kept(chord) ==
    IF Len(ChordPitches(chord)) < 2 THEN "None"
    ELSE LET root == MinOf({chord.notes[i].pitch : i \in 1..Len(chord.notes)})
         IN  TypeOfIntervals(
                 Ascending({chord.notes[i].pitch - root :
                               i \in 1..Len(chord.notes)}))

\* ChordDetector.identify_chord_type; "None" stands for Python's None.
identify_chord_type(chord) ==
    IF Len(ChordPitches(chord)) < 2 THEN "None"
    ELSE LET root == MinOf({chord.notes[i].pitch : i \in 1..Len(chord.notes)})
         IN  TypeOfIntervals(
                 Ascending({(chord.notes[i].pitch - root) % 12 :
                               i \in 1..Len(chord.notes)}))

(***************************************************************************)
(* difficulty_adjuster.py                                                  *)
(***************************************************************************)
\* The order of level_order in adjust_difficulty and of the scoring loop.
LevelOrder == <<"beginner", "easy", "intermediate", "advanced", "expert">>

LevelIndex(level) == CHOOSE i \in 1..Len(LevelOrder) : LevelOrder[i] = level

Params(nps, simultaneous, stretch, tempo) ==
    [max_notes_per_second |-> nps, max_simultaneous_notes |-> simultaneous,
     max_hand_stretch |-> stretch, max_tempo |-> tempo]

\* DifficultyAdjuster.LEVEL_PARAMS
LEVEL_PARAMS ==
    [beginner |-> Params(4, 2, 5, 100),
     easy |-> Params(6, 3, 7, 120),
     intermediate |-> Params(8, 4, 9, 140),
     advanced |-> Params(12, 5, 12, 180),
     expert |-> Params(20, 8, 15, 240)]

DifficultyConfig(level, fast, simplify, stretches, ornaments, rhythms) ==
    [target_level |-> level, remove_fast_passages |-> fast,
     simplify_chords |-> simplify, reduce_hand_stretches |-> stretches,
     remove_ornaments |-> ornaments, simplify_rhythms |-> rhythms]

PitchSpan(notes) ==
    LET pitches == {notes[i].pitch : i \in 1..Len(notes)}
    IN  MaxOf(pitches) - MinOf(pitches)

\* DifficultyAdjuster._get_max_simultaneous_notes
_get_max_simultaneous_notes(notes) ==
    LET found == detect_chords(DefaultChordDetectionConfig, notes)
    IN  IF found = <<>> THEN 1
        ELSE MaxOf({Len(found[k].notes) : k \in 1..Len(found)})

\* DifficultyAdjuster._get_max_hand_stretch
_get_max_hand_stretch(notes) ==
    LET found == detect_chords(DefaultChordDetectionConfig, notes)
    IN  IF found = <<>> THEN 0
        ELSE MaxOf({0} \cup {PitchSpan(found[k].notes) :
                                k \in {j \in 1..Len(found) : Len(found[j].notes) >= 2}})

\* The score of one level in _analyze_difficulty: a point per threshold
\* met.  notes_per_second = len(notes) / duration, duration in seconds.
LevelScore(level, note_count, duration_ticks, max_simultaneous, max_stretch) ==
    LET params == LEVEL_PARAMS[level]
        Point(b) == IF b THEN 1 ELSE 0
    IN  Point(IF duration_ticks > 0
              THEN note_count * TicksPerSecond
                      <= params.max_notes_per_second * duration_ticks
              ELSE TRUE)
        + Point(max_simultaneous <= params.max_simultaneous_notes)
        + Point(max_stretch <= params.max_hand_stretch)

\* A choice of the last level of the highest score.
BestLevel_last(scores) ==
    LET best == CHOOSE i \in 1..Len(scores) :
                   /\ \A j \in 1..Len(scores) : scores[j] <= scores[i]
                   /\ \A j \in (i + 1)..Len(scores) : scores[j] < scores[i]
    IN  LevelOrder[best]

\* max(scores, key=scores.get): the first level of the highest score.
BestLevel(scores) ==
    LET best == CHOOSE i \in 1..Len(scores) :
                   /\ \A j \in 1..Len(scores) : scores[j] <= scores[i]
                   /\ \A j \in 1..(i - 1) : scores[j] < scores[i]
    IN  LevelOrder[best]

\* DifficultyAdjuster._analyze_difficulty
_analyze_difficulty(notes) ==
    IF notes = <<>> THEN "beginner"
    ELSE CHOOSE level \in
            {BestLevel([j \in 1..Len(LevelOrder) |->
                          LevelScore(LevelOrder[j], Len(notes), d, m, w)]) :
                d \in {get_duration(notes)},
                m \in {_get_max_simultaneous_notes(notes)},
                w \in {_get_max_hand_stretch(notes)}} : TRUE

\* The score of _select_important_notes, times 1270 * TicksPerSecond:
\* velocity / 127 * 0.4 + min(duration, 1.0) * 0.3 + (extreme pitch) * 0.3.
ImportanceScore(note, notes) ==
    LET pitches == {notes[i].pitch : i \in 1..Len(notes)}
        extreme == note.pitch = MaxOf(pitches) \/ note.pitch = MinOf(pitches)
    IN  note.velocity * 4 * TicksPerSecond
        + Min(duration(note), TicksPerSecond) * 3 * 127
        + (IF extreme THEN 3 * 127 * TicksPerSecond ELSE 0)

\* DifficultyAdjuster._select_important_notes
_select_important_notes(notes, count) ==
    LET Score(n) == ImportanceScore(n, notes)
        scored_notes == SortedByReverse(notes, Score)
    IN  SubSeq(scored_notes, 1, Min(count, Len(scored_notes)))

\* One completed window of _remove_fast_notes.
ThinnedWindow(params, window_notes) ==
    IF Len(window_notes) <= params.max_notes_per_second
    THEN window_notes
    ELSE _select_important_notes(window_notes, params.max_notes_per_second)

\* The loop of _remove_fast_notes over the start-sorted notes.
RECURSIVE FastWindows(_, _, _, _, _)
FastWindows(params, rest, kept_notes, current_window_start, current_window_notes) ==
    IF rest = <<>>
    THEN kept_notes \o ThinnedWindow(params, current_window_notes)
    ELSE LET note == Head(rest)
         IN  IF note.start - current_window_start < Sec(1, 1)
             THEN FastWindows(params, Tail(rest), kept_notes,
                              current_window_start, Append(current_window_notes, note))
             ELSE FastWindows(params, Tail(rest),
                              kept_notes \o ThinnedWindow(params, current_window_notes),
                              note.start, <<note>>)

\* DifficultyAdjuster._remove_fast_notes
_remove_fast_notes(params, notes) ==
    IF notes = <<>> THEN notes
    ELSE LET sorted_notes == SortedBy(notes, StartKey)
         IN  FastWindows(params, sorted_notes, <<>>, sorted_notes[1].start, <<>>)

\* The notes both chord passes add last: those not within 50 ms (strictly)
\* of the start of a chord that was processed.
Unprocessed(notes, processed_times) ==
    LET IsFree(n) == ~\E t \in processed_times : Abs(n.start - t) < Sec(5, 100)
    IN  Filter(notes, IsFree)

\* The notes _simplify_chord_voicings keeps of one chord.
ThinnedChord(params, chord) ==
    IF Len(chord.notes) <= params.max_simultaneous_notes
    THEN chord.notes
    ELSE LET chord_notes == SortedBy(chord.notes, PitchKey)
             remaining == params.max_simultaneous_notes - 2
             middle == SortedByReverse(SubSeq(chord_notes, 2, Len(chord_notes) - 1),
                                       PitchKey)
         IN  <<chord_notes[1], chord_notes[Len(chord_notes)]>>
             \o (IF remaining > 0 /\ Len(chord_notes) > 2
                 THEN SubSeq(middle, 1, Min(remaining, Len(middle)))
                 ELSE <<>>)

\* The loop of _simplify_chord_voicings over the detected chords, and the
\* notes it adds after it.
ThinnedChords(params, notes, found) ==
    Concat([k \in 1..Len(found) |-> ThinnedChord(params, found[k])])
    \o Unprocessed(notes, {ChordStart(found[k]) : k \in 1..Len(found)})

VoicingsOfSorted(params, notes) ==
    ThinnedChords(params, notes, detect_chords(DefaultChordDetectionConfig, notes))

\* DifficultyAdjuster._simplify_chord_voicings: PianoRoll(notes=notes)
\* sorts the list it is given before the chords are detected.
_simplify_chord_voicings(params, given) ==
    VoicingsOfSorted(params, sort_by_time(given))

\* The notes _reduce_stretches keeps of one chord.
NarrowedChord(params, chord) ==
    IF Len(chord.notes) <= 1 THEN chord.notes
    ELSE LET chord_notes == SortedBy(chord.notes, PitchKey)
         IN  IF PitchSpan(chord_notes) <= params.max_hand_stretch
             THEN chord.notes
             ELSE <<chord_notes[1], chord_notes[Len(chord_notes)]>>

\* The loop of _reduce_stretches over the detected chords, and the notes
\* it adds after it: a chord of one note is kept without its start being
\* marked as processed.
NarrowedChords(params, notes, found) ==
    Concat([k \in 1..Len(found) |-> NarrowedChord(params, found[k])])
    \o Unprocessed(notes,
                   {ChordStart(found[k]) :
                       k \in {j \in 1..Len(found) : Len(found[j].notes) > 1}})

StretchesOfSorted(params, notes) ==
    NarrowedChords(params, notes, detect_chords(DefaultChordDetectionConfig, notes))

\* DifficultyAdjuster._reduce_stretches
_reduce_stretches(params, given) ==
    StretchesOfSorted(params, sort_by_time(given))

\* simple_durations of _simplify_rhythms, in seconds: 0.125 .. 2.0.
simple_durations == <<Sec(1, 8), Sec(1, 4), Sec(1, 2), Sec(1, 1), Sec(2, 1)>>

\* min(simple_durations, key=...): the first of the nearest.
ClosestDuration(d) ==
    LET dist(i) == Abs(simple_durations[i] - d)
        best == CHOOSE i \in 1..Len(simple_durations) :
                   /\ \A j \in 1..Len(simple_durations) : dist(i) <= dist(j)
                   /\ \A j \in 1..(i - 1) : dist(j) > dist(i)
    IN  simple_durations[best]

\* DifficultyAdjuster._simplify_rhythms
_simplify_rhythms(notes) ==
    [i \in 1..Len(notes) |->
        Note(notes[i].pitch, notes[i].start,
             notes[i].start + ClosestDuration(duration(notes[i])),
             notes[i].velocity, notes[i].note_type)]

\* DifficultyAdjuster._remove_ornaments: notes of 100 ms or more stay.
_remove_ornaments(notes) ==
    LET IsLong(n) == duration(n) >= Sec(1, 10)
    IN  Filter(notes, IsLong)

\* The steps of _simplify, each applied when the configuration asks for it.
FastPassagesStep(c, notes) ==
    IF c.remove_fast_passages
    THEN _remove_fast_notes(LEVEL_PARAMS[c.target_level], notes) ELSE notes

ChordsStep(c, notes) ==
    IF c.simplify_chords
    THEN _simplify_chord_voicings(LEVEL_PARAMS[c.target_level], notes) ELSE notes

StretchesStep(c, notes) ==
    IF c.reduce_hand_stretches
    THEN _reduce_stretches(LEVEL_PARAMS[c.target_level], notes) ELSE notes

RhythmsStep(c, notes) ==
    IF c.simplify_rhythms THEN _simplify_rhythms(notes) ELSE notes

OrnamentsStep(c, notes) ==
    IF c.remove_ornaments THEN _remove_ornaments(notes) ELSE notes

\* The steps of _simplify on the copy of the roll's notes.
SimplifiedNotes(c, copied) ==
    OrnamentsStep(c, RhythmsStep(c, StretchesStep(c,
        ChordsStep(c, FastPassagesStep(c, copied)))))

SimplifiedRoll(made) ==
    [heap |-> made.heap, rolls |-> <<made.roll>>, path |-> "simplify"]

\* DifficultyAdjuster._simplify on roll r of heap h: notes is a copy of
\* the roll's list, and the result a new roll over the simplified notes.
_simplify(c, h, r) ==
    SimplifiedRoll(NewRoll(h, SimplifiedNotes(c, h[r.notes]),
                           Min(r.tempo, LEVEL_PARAMS[c.target_level].max_tempo),
                           r.time_signature, r.key_signature))

\* A _complicate that raises the tempo to the limit of the target level.
_complicate_to_target_tempo(c, h, r) ==
    [heap |-> h,
     rolls |-> <<[r EXCEPT !.tempo = LEVEL_PARAMS[c.target_level].max_tempo]>>,
     path |-> "complicate"]

\* DifficultyAdjuster._complicate: the roll it was given.
_complicate(c, h, r) == [heap |-> h, rolls |-> <<r>>, path |-> "complicate"]

\* The branches of adjust_difficulty once the current level is known.
AdjustedFrom(current_level, c, h, r) ==
    IF current_level = c.target_level
    THEN [heap |-> h, rolls |-> <<r>>, path |-> "unchanged"]
    ELSE IF LevelIndex(c.target_level) < LevelIndex(current_level)
    THEN _simplify(c, h, r)
    ELSE _complicate(c, h, r)

\* What a call of adjust_difficulty shows: the roll it returns and the
\* current level it prints.
Reported(current_level, res) ==
    [heap |-> res.heap, rolls |-> res.rolls, path |-> res.path,
     level |-> current_level]

AnalysedAndAdjusted(current_level, c, h, r) ==
    Reported(current_level, AdjustedFrom(current_level, c, h, r))

\* DifficultyAdjuster.adjust_difficulty on roll r of heap h:
\* [heap, rolls, path, level].
adjust_difficulty(c, h, r) ==
    AnalysedAndAdjusted(_analyze_difficulty(h[r.notes]), c, h, r)

(***************************************************************************)
(* The callers: rolls and configurations they hand to the pipeline.        *)
(***************************************************************************)
MaxNotes == 3
MaxQuantizerNotes == 2
MaxFeeds == 1

\* Every roll a caller can construct from at most n notes of a universe:
\* PianoRoll(notes=...) sorts whatever list it is given.
Rolls(universe, n) ==
    {sort_by_time(s) : s \in UNION {[1..k -> universe] : k \in 0..n}}

DefaultTempo == 120

InputRoll ==
    [notes |-> 1, tempo |-> DefaultTempo,
     time_signature |-> <<4, 4>>, key_signature |-> 0]

\* Notes below, on and above middle C, at onsets 0, 50 ms (the simultaneity
\* threshold) and 150 ms, a quarter of a second long.
PipelineNotes ==
    {Note(p, s, s + Sec(1, 4), 64, "unknown") :
        p \in {48, 60, 72}, s \in {0, Sec(5, 100), Sec(15, 100)}}

\* Onsets and lengths around the grids of a 120 BPM roll: on and off the
\* grid lines, on odd and even grid positions, and on ties between two.
QuantizerStarts == {0, 480, 1440, 15360}
QuantizerDurations == {96, 1920}

QuantizerNotes ==
    {Note(60, s, s + d, 64, "unknown") :
        s \in QuantizerStarts, d \in QuantizerDurations}

QuantizationConfig(g, s, m, o, w) ==
    [grid_resolution |-> g, strength |-> s, min_duration |-> m,
     quantize_offsets |-> o, swing |-> w]

GridNames == DOMAIN GRID_SIZES \cup {"64th"}

\* Configurations a caller may try: every accepted combination, and each
\* of grid, strength and swing out of its range.
QuantizerConfigs ==
    {QuantizationConfig(g, s, m, o, w) :
        g \in DOMAIN GRID_SIZES, s \in 0..StrengthDen, m \in {0, 1},
        o \in BOOLEAN, w \in 0..2}
    \cup {QuantizationConfig(g, StrengthDen, 1, TRUE, 0) : g \in GridNames}
    \cup {QuantizationConfig("16th", s, 1, TRUE, 0) : s \in -1..3}
    \cup {QuantizationConfig("16th", StrengthDen, 1, TRUE, w) : w \in -1..3}

\* The quantizers of the pipeline runs: the default one, and a swung one
\* on the quarter-note grid that keeps durations.
PipelineQuantizerConfigs ==
    {QuantizationConfig("16th", StrengthDen, 1, TRUE, 0),
     QuantizationConfig("quarter", StrengthDen, 1, FALSE, 1)}

HandConfigs == {HandAssignmentConfig(60, 12, n) : n \in {1, 5}}

VoiceConfigs ==
    {VoiceSeparationConfig(60, 55, TRUE, 2), VoiceSeparationConfig(60, 55, FALSE, 1)}

ChordConfigs ==
    {ChordDetectionConfig(Sec(5, 100), 2, TRUE, merge, Sec(15, 100)) :
        merge \in BOOLEAN}

DifficultyConfigs ==
    {DifficultyConfig(LevelOrder[l], b, b, b, b, b) :
        l \in 1..Len(LevelOrder), b \in BOOLEAN}

InitWith(inputs) ==
    /\ \E notes \in inputs : heap = <<notes>>
    /\ roll = InputRoll
    /\ origin = <<>>
    /\ quantizer = None
    /\ op = "none"
    /\ cfg = None
    /\ out = <<>>
    /\ chords = <<>>
    /\ assigned = <<>>
    /\ path = "none"
    /\ analysed = "none"
    /\ chord_type = "none"
    /\ note_made = None
    /\ step_notes = <<>>
    /\ raised = "none"

Init == InitWith(Rolls(PipelineNotes, MaxNotes))

InitQuantizer == InitWith(Rolls(QuantizerNotes, MaxQuantizerNotes))

\* What the caller still holds when a new call starts: its own roll; the
\* results of the previous call are dropped.
Kept == <<heap[roll.notes]>>

\* RhythmQuantizer(config): __init__ validates, and raises or yields the
\* quantizer.
Construct(c) ==
    /\ quantizer = None
    /\ step_notes' = <<>>
    /\ op' = "construct"
    /\ cfg' = c
    /\ IF _validate_config(c)
       THEN quantizer' = c /\ raised' = "none"
       ELSE quantizer' = quantizer /\ raised' = "ValueError"
    /\ heap' = Kept
    /\ out' = <<>>
    /\ chords' = <<>>
    /\ assigned' = <<>>
    /\ path' = "none"
    /\ analysed' = "none"
    /\ chord_type' = "none"
    /\ note_made' = None
    /\ UNCHANGED <<roll, origin>>

\* quantizer.quantize(roll)
Quantize ==
    /\ quantizer # None
    /\ \E res \in {quantize(quantizer, Kept, roll)} :
           /\ heap' = res.heap
           /\ out' = res.rolls
           /\ raised' = res.raised
    /\ step_notes' = <<>>
    /\ op' = "quantize"
    /\ cfg' = quantizer
    /\ chords' = <<>>
    /\ assigned' = <<>>
    /\ path' = "none"
    /\ analysed' = "none"
    /\ chord_type' = "none"
    /\ note_made' = None
    /\ UNCHANGED <<roll, origin, quantizer>>

\* ChordDetector(c).detect_chords(roll)
DetectChords(c) ==
    /\ chords' = detect_chords(c, heap[roll.notes])
    /\ heap' = Kept
    /\ step_notes' = <<>>
    /\ op' = "detect_chords"
    /\ cfg' = c
    /\ out' = <<>>
    /\ assigned' = <<>>
    /\ path' = "none"
    /\ analysed' = "none"
    /\ chord_type' = "none"
    /\ note_made' = None
    /\ raised' = "none"
    /\ UNCHANGED <<roll, origin, quantizer>>

\* VoiceSeparator(c).separate_voices(roll)
SeparateVoices(c) ==
    /\ \E res \in {separate_voices(c, Kept, roll)} :
           heap' = res.heap /\ out' = res.rolls
    /\ step_notes' = <<>>
    /\ op' = "separate_voices"
    /\ cfg' = c
    /\ chords' = <<>>
    /\ assigned' = <<>>
    /\ path' = "none"
    /\ analysed' = "none"
    /\ chord_type' = "none"
    /\ note_made' = None
    /\ raised' = "none"
    /\ UNCHANGED <<roll, origin, quantizer>>

\* HandAssigner(c).assign_hands(roll)
AssignHands(c) ==
    /\ \E res \in {assign_hands(c, Kept, roll)} :
           heap' = res.heap /\ out' = res.rolls /\ assigned' = res.groups
    /\ step_notes' = <<>>
    /\ op' = "assign_hands"
    /\ cfg' = c
    /\ chords' = <<>>
    /\ path' = "none"
    /\ analysed' = "none"
    /\ chord_type' = "none"
    /\ note_made' = None
    /\ raised' = "none"
    /\ UNCHANGED <<roll, origin, quantizer>>

\* DifficultyAdjuster(c).adjust_difficulty(roll)
AdjustDifficulty(c) ==
    /\ \E res \in {adjust_difficulty(c, Kept, roll)} :
           /\ heap' = res.heap /\ out' = res.rolls
           /\ path' = res.path /\ analysed' = res.level
    /\ chord_type' = "none"
    /\ note_made' = None
    /\ step_notes' = <<>>
    /\ op' = "adjust_difficulty"
    /\ cfg' = c
    /\ chords' = <<>>
    /\ assigned' = <<>>
    /\ raised' = "none"
    /\ UNCHANGED <<roll, origin, quantizer>>

\* The caller threads a returned roll into the next stage: roll = out[i].
Feed(i) ==
    /\ Len(origin) < MaxFeeds
    /\ i \in 1..Len(out)
    /\ heap' = <<heap[out[i].notes]>>
    /\ roll' = [out[i] EXCEPT !.notes = 1]
    /\ origin' = Append(origin, op)
    /\ step_notes' = <<>>
    /\ op' = "feed"
    /\ cfg' = None
    /\ out' = <<>>
    /\ chords' = <<>>
    /\ assigned' = <<>>
    /\ path' = "none"
    /\ analysed' = "none"
    /\ chord_type' = "none"
    /\ note_made' = None
    /\ raised' = "none"
    /\ UNCHANGED quantizer

\* The pipeline: any stage, in any order, any number of times, on the
\* caller's roll.
Next ==
    \/ \E c \in PipelineQuantizerConfigs : Construct(c)
    \/ Quantize
    \/ \E c \in ChordConfigs : DetectChords(c)
    \/ \E c \in VoiceConfigs : SeparateVoices(c)
    \/ \E c \in HandConfigs : AssignHands(c)
    \/ \E c \in DifficultyConfigs : AdjustDifficulty(c)

Spec == Init /\ [][Next]_vars

\* The quantizer alone: construction with any configuration, quantize, and
\* quantize again of what it returned.
NextQuantizer ==
    \/ \E c \in QuantizerConfigs : Construct(c)
    \/ Quantize
    \/ Feed(1)

SpecQuantizer == InitQuantizer /\ [][NextQuantizer]_vars

\* The arguments callers give to Note(...): in range, on the edges of the
\* ranges, and one step outside them.
NotePitches == {-1, 0, 60, 127, 128}
NoteVelocities == {-1, 0, 64, 127, 128}
NoteStarts == {0 - Sec(5, 100), 0, Sec(5, 100)}
NoteEnds == {0, Sec(5, 100), Sec(1, 10)}

\* Note(pitch, start, end, velocity): __post_init__ raises, or the note is
\* made with the fields it was given.
MakeNote(p, s, e, v) ==
    /\ step_notes' = <<>>
    /\ op' = "Note"
    /\ cfg' = [pitch |-> p, start |-> s, end |-> e, velocity |-> v]
    /\ IF NoteValid(Note(p, s, e, v, "unknown"))
       THEN note_made' = Note(p, s, e, v, "unknown") /\ raised' = "none"
       ELSE note_made' = None /\ raised' = "ValueError"
    /\ heap' = Kept
    /\ out' = <<>>
    /\ chords' = <<>>
    /\ assigned' = <<>>
    /\ path' = "none"
    /\ analysed' = "none"
    /\ chord_type' = "none"
    /\ UNCHANGED <<roll, origin, quantizer>>

InitNote == InitWith({<<>>})

NextNote ==
    \E p \in NotePitches, s \in NoteStarts, e \in NoteEnds, v \in NoteVelocities :
        MakeNote(p, s, e, v)

\* Constructions of notes.
SpecNote == InitNote /\ [][NextNote]_vars

MaxChordNotes == 6

\* Notes for chord detection: pairs of notes at onsets 100 ms and 150 ms
\* (the arpeggio threshold) apart, and a note between the first two, 50 ms
\* (the simultaneity threshold) from either.
ChordNotes ==
    {Note(p, s, s + Sec(1, 4), 64, "unknown") :
        p \in {60, 64}, s \in {0, Sec(1, 10), Sec(1, 4)}}
    \cup {Note(60, Sec(5, 100), Sec(5, 100) + Sec(1, 4), 64, "unknown")}

InitChords == InitWith(Rolls(ChordNotes, MaxChordNotes))

NextChords == \E c \in ChordConfigs : DetectChords(c)

\* Chord detection alone.
SpecChords == InitChords /\ [][NextChords]_vars

MaxChordTypeNotes == 4

\* The notes of one chord: triads and sevenths on C and on E, with the
\* octave of C.
ChordTypeNotes ==
    {Note(p, 0, Sec(1, 4), 64, "unknown") : p \in {60, 63, 64, 67, 68, 71, 72}}

\* ChordDetector().identify_chord_type(Chord(roll.notes))
IdentifyChordType ==
    /\ chords' = <<Chord(heap[roll.notes], NoRoot)>>
    /\ chord_type' = identify_chord_type(Chord(heap[roll.notes], NoRoot))
    /\ step_notes' = <<>>
    /\ op' = "identify_chord_type"
    /\ cfg' = None
    /\ heap' = Kept
    /\ out' = <<>>
    /\ assigned' = <<>>
    /\ path' = "none"
    /\ analysed' = "none"
    /\ note_made' = None
    /\ raised' = "none"
    /\ UNCHANGED <<roll, origin, quantizer>>

InitChordType == InitWith(Rolls(ChordTypeNotes, MaxChordTypeNotes))

NextChordType == IdentifyChordType

\* Chord type identification alone.
SpecChordType == InitChordType /\ [][NextChordType]_vars

MaxHandNotes == 4

\* One simultaneity cluster: notes an octave apart on both sides of the
\* split pitch, all at onset 0.
HandNotes ==
    {Note(p, 0, Sec(1, 4), 64, "unknown") : p \in {36, 48, 60, 72, 84}}

\* The default configuration, and hands that hold one or two notes.
HandClusterConfigs == {HandAssignmentConfig(60, 12, n) : n \in {1, 2, 5}}

InitHands == InitWith(Rolls(HandNotes, MaxHandNotes))

NextHands == \E c \in HandClusterConfigs : AssignHands(c)

\* Hand assignment alone, on one cluster.
SpecHands == InitHands /\ [][NextHands]_vars

\* create_simple_melody: the C major scale, a note every half second.
ScalePitches == <<60, 62, 64, 65, 67, 69, 71, 72>>

\* The lengths a note of the scale is given: 0.4 s as written, and the
\* 0.5 s its comment announces.
ScaleDurations == {Sec(4, 10), Sec(1, 2)}

ScaleRolls ==
    {[i \in 1..Len(ScalePitches) |->
         Note(ScalePitches[i], (i - 1) * Sec(1, 2), (i - 1) * Sec(1, 2) + d[i],
              100, "unknown")] :
        d \in [1..Len(ScalePitches) -> ScaleDurations]}

\* Quantizers on the 16th grid at full strength.
ScaleQuantizerConfigs ==
    {QuantizationConfig("16th", StrengthDen, m, o, w) :
        m \in {0, 1}, o \in BOOLEAN, w \in {0, 2}}

InitScale == InitWith(ScaleRolls)

NextScale ==
    \/ \E c \in ScaleQuantizerConfigs : Construct(c)
    \/ Quantize
    \/ Feed(1)
    \/ \E c \in ChordConfigs : DetectChords(c)

\* The scale scenario: quantize the scale, then detect chords in what
\* quantize returned.
SpecScale == InitScale /\ [][NextScale]_vars

MaxStepNotes == 6

\* Notes for the single steps of _simplify: an ornament of 50 ms and a
\* note of a second, at onsets on both sides of the end of the first
\* one-second window.
StepNotes ==
    {Note(60, s, s + d, 64, "unknown") :
        s \in {0, Sec(9, 10), Sec(1, 1)}, d \in {Sec(5, 100), Sec(1, 1)}}

\* DifficultyAdjuster(DifficultyConfig(level))._remove_fast_notes(roll.notes)
RemoveFastNotes(level) ==
    /\ step_notes' = _remove_fast_notes(LEVEL_PARAMS[level], heap[roll.notes])
    /\ op' = "_remove_fast_notes"
    /\ cfg' = DifficultyConfig(level, TRUE, TRUE, TRUE, TRUE, TRUE)
    /\ heap' = Kept
    /\ out' = <<>>
    /\ chords' = <<>>
    /\ assigned' = <<>>
    /\ path' = "none"
    /\ analysed' = "none"
    /\ chord_type' = "none"
    /\ note_made' = None
    /\ raised' = "none"
    /\ UNCHANGED <<roll, origin, quantizer>>

\* DifficultyAdjuster(DifficultyConfig(level))._simplify_rhythms(roll.notes)
SimplifyRhythms(level) ==
    /\ step_notes' = _simplify_rhythms(heap[roll.notes])
    /\ op' = "_simplify_rhythms"
    /\ cfg' = DifficultyConfig(level, TRUE, TRUE, TRUE, TRUE, TRUE)
    /\ heap' = Kept
    /\ out' = <<>>
    /\ chords' = <<>>
    /\ assigned' = <<>>
    /\ path' = "none"
    /\ analysed' = "none"
    /\ chord_type' = "none"
    /\ note_made' = None
    /\ raised' = "none"
    /\ UNCHANGED <<roll, origin, quantizer>>

InitSteps == InitWith(Rolls(StepNotes, MaxStepNotes))

NextSteps ==
    \/ \E l \in 1..Len(LevelOrder) : RemoveFastNotes(LevelOrder[l])
    \/ \E l \in 1..Len(LevelOrder) : SimplifyRhythms(LevelOrder[l])

\* The steps of _simplify one at a time, on the notes of a roll.
SpecSteps == InitSteps /\ [][NextSteps]_vars

(***************************************************************************)
(* Properties.                                                             *)
(***************************************************************************)
In == heap[roll.notes]
Out(i) == heap[out[i].notes]

Onsets(notes) == SeqToBag([i \in 1..Len(notes) |-> notes[i].start])

Quantized == op = "quantize" /\ raised = "none"
FullStrength == quantizer.strength = StrengthDen
Grid == GridDuration(quantizer, roll.tempo)
OffGrid(notes) == \E i \in 1..Len(notes) : notes[i].start % Grid # 0

\* The grid position nearest to time t, the even one of two equally near.
NearestGridPosition(t, g) ==
    CHOOSE k \in 0..(t \div g + 1) :
        /\ 2 * Abs(t - k * g) <= g
        /\ 2 * Abs(t - k * g) = g => k % 2 = 0

\* The grid line nearest to t, delayed by swing * g on an odd position.
SwungGridTime(t, g, swing) ==
    LET k == NearestGridPosition(t, g)
    IN  k * g + (IF k % 2 = 1 THEN (swing * g) \div SwingDen ELSE 0)

Stages ==
    {"quantize", "detect_chords", "separate_voices", "assign_hands",
     "adjust_difficulty"}

\* All notes of the returned rolls together.
Returned == Concat([i \in 1..Len(out) |-> Out(i)])

\* A note without its voice label.
Sounding(n) == <<n.pitch, n.start, n.end, n.velocity>>

Soundings(notes) == SeqToBag([i \in 1..Len(notes) |-> Sounding(notes[i])])

\* Non-decreasing start and, at equal start, non-decreasing pitch.
Ordered(notes) ==
    \A i \in 1..Len(notes) : \A j \in (i + 1)..Len(notes) :
        \/ notes[i].start < notes[j].start
        \/ notes[i].start = notes[j].start /\ notes[i].pitch <= notes[j].pitch

\* C1: for every roll, the notes of the right-hand and the left-hand roll
\* that assign_hands returns are together, as a multiset, the notes of the
\* input: no note is lost and none is in both or twice.
C1_HandsPartitionInput ==
    op = "assign_hands" =>
        /\ Len(out) = 2
        /\ SeqToBag(Out(1)) (+) SeqToBag(Out(2)) = SeqToBag(In)

\* C1 witness: a cluster of three notes whose right-hand notes the
\* redistribution pass has all moved to the left hand.
C1_Witness ==
    /\ op = "assign_hands" /\ cfg.max_notes_per_hand = 1
    /\ Len(In) = 3 /\ Len(assigned) = 1
    /\ \E i \in 1..3 : In[i].pitch >= cfg.default_split_pitch
    /\ Len(Out(1)) = 0 /\ Len(Out(2)) = 3

\* C2: for every roll, the melody, harmony and bass rolls that
\* separate_voices returns hold together, as a multiset of (pitch, start,
\* end, velocity), exactly the notes of the input, so their note counts sum
\* to the input's.
C2_VoicesPartitionInput ==
    op = "separate_voices" =>
        /\ Len(out) = 3
        /\ Soundings(Returned) = Soundings(In)
        /\ Len(Out(1)) + Len(Out(2)) + Len(Out(3)) = Len(In)

\* C2 witness: a window of three notes was split into one melody, one
\* harmony and one bass note.
C2_Witness ==
    /\ op = "separate_voices"
    /\ Len(In) = 3
    /\ Len(Out(1)) = 1 /\ Len(Out(2)) = 1 /\ Len(Out(3)) = 1
    /\ Out(3)[1].note_type = "bass"

\* C3: no call of quantize, detect_chords, separate_voices, assign_hands or
\* adjust_difficulty, in any order and number, changes the roll it is
\* given: its note sequence and its tempo, time signature and key signature
\* are after the call what they were before it.
C3_StagesKeepTheirInput ==
    [][op' \in Stages => (heap'[roll'.notes] = heap[roll.notes] /\ roll' = roll)]_vars

\* C3 witness: adjust_difficulty has simplified a roll, returning fewer
\* notes in a new roll, after which the caller's roll still holds three.
C3_Witness ==
    /\ op = "adjust_difficulty" /\ path = "simplify"
    /\ Len(In) = 3 /\ Len(Out(1)) < 3
    /\ out[1].notes # roll.notes

\* C4: the rolls one call of assign_hands or separate_voices returns share
\* no note list with one another, for every input, the empty roll included.
C4_ReturnedRollsAreSiblings ==
    op \in {"assign_hands", "separate_voices"} =>
        \A i \in 1..Len(out) : \A j \in 1..Len(out) :
            i # j => out[i].notes # out[j].notes

\* C5: every roll returned by quantize, separate_voices, assign_hands and
\* the simplification path of adjust_difficulty has its notes in
\* non-decreasing order of start and, at equal start, of pitch.
C5_ReturnedRollsAreSorted ==
    (\/ op \in {"quantize", "separate_voices", "assign_hands"}
     \/ op = "adjust_difficulty" /\ path = "simplify") =>
        \A i \in 1..Len(out) : Ordered(Out(i))

\* C5 witness: quantize has returned the notes of a roll in another order
\* of pitch than they had in the input.
C5_Witness ==
    /\ op = "quantize" /\ raised = "none"
    /\ Len(In) = 3 /\ Len(Out(1)) = 3
    /\ \E i \in 1..3 : Out(1)[i].pitch # In[i].pitch

\* C6, as the claim states it: with strength = 1, under every accepted
\* configuration, every output note of quantize starts on an integer
\* multiple of the grid spacing.
C6_StartsOnGridMultiples ==
    (Quantized /\ FullStrength) =>
        \A i \in 1..Len(Out(1)) : Out(1)[i].start % Grid = 0

\* C6, amended: with strength = 1 every output note of quantize starts on
\* the grid line nearest to its input start (k * grid spacing), delayed by
\* swing * grid spacing when k is odd; so it is an integer multiple of the
\* grid spacing when swing = 0 or k is even.
C6_StartsOnSwungGrid ==
    (Quantized /\ FullStrength) =>
        /\ Onsets(Out(1)) =
              SeqToBag([i \in 1..Len(In) |->
                          SwungGridTime(In[i].start, Grid, quantizer.swing)])
        /\ \A i \in 1..Len(Out(1)) :
              Out(1)[i].start % Grid # 0 =>
                  /\ quantizer.swing > 0
                  /\ (Out(1)[i].start \div Grid) % 2 = 1

\* C6 witness: a full-strength quantize with swing has moved an off-grid
\* note to a swung (delayed odd) position.
C6_Witness ==
    /\ Quantized /\ FullStrength
    /\ quantizer.swing > 0
    /\ OffGrid(In)
    /\ \E i \in 1..Len(Out(1)) : Out(1)[i].start % Grid # 0
    /\ \E i \in 1..Len(Out(1)) : Out(1)[i].start % Grid = 0

\* C7: with strength = 0 quantize completes and every output note has
\* exactly the start of its input note, whatever the grid, swing and
\* quantize_offsets.
C7_ZeroStrengthKeepsStarts ==
    (op = "quantize" /\ quantizer.strength = 0) =>
        /\ raised = "none"
        /\ Len(Out(1)) = Len(In)
        /\ \A i \in 1..Len(In) :
              /\ Out(1)[i].start = In[i].start
              /\ Out(1)[i].pitch = In[i].pitch

\* C7 witness: a zero-strength quantize, with swing and offsets quantized,
\* of a roll holding an off-grid note.
C7_Witness ==
    /\ Quantized /\ quantizer.strength = 0
    /\ quantizer.swing > 0 /\ quantizer.quantize_offsets
    /\ OffGrid(In)
    /\ Len(Out(1)) = 2

\* C8: quantizing, at strength 1 and with the same quantizer, a roll that
\* this quantizer returned gives the same multiset of onsets again.
C8_QuantizeIdempotentOnOnsets ==
    (/\ Quantized /\ FullStrength
     /\ origin # <<>> /\ origin[Len(origin)] = "quantize") =>
        Onsets(Out(1)) = Onsets(In)

\* C9: once a quantizer is constructed, quantize of a valid roll does not
\* raise and returns one note per input note, each with end > start and
\* start >= 0.
C9_QuantizeNeverRaises ==
    op = "quantize" =>
        /\ raised = "none"
        /\ Len(Out(1)) = Len(In)
        /\ \A i \in 1..Len(Out(1)) :
              Out(1)[i].end > Out(1)[i].start /\ Out(1)[i].start >= 0

\* The ranges the claim names: the seven grid names, strength in [0, 1],
\* swing in [0, 0.5].
InDocumentedRanges(c) ==
    /\ c.grid_resolution \in
          {"whole", "half", "quarter", "8th", "16th", "32nd", "triplet"}
    /\ 0 <= c.strength /\ c.strength <= StrengthDen
    /\ 0 <= 2 * c.swing /\ 2 * c.swing <= SwingDen

\* C10: constructing a RhythmQuantizer with a grid name, strength or swing
\* outside the documented ranges raises at construction, before any note
\* is processed, and yields no quantizer; every configuration inside the
\* ranges is accepted, and only such a configuration ever quantizes.
C10_ConstructionValidates ==
    /\ op = "construct" =>
          IF InDocumentedRanges(cfg)
          THEN raised = "none" /\ quantizer = cfg
          ELSE raised = "ValueError" /\ quantizer = None /\ out = <<>>
    /\ quantizer # None => InDocumentedRanges(quantizer)

\* C10 witness: a construction was rejected for its swing alone.
C10_Witness ==
    /\ op = "construct" /\ raised = "ValueError"
    /\ cfg.grid_resolution = "16th" /\ cfg.strength = StrengthDen
    /\ 2 * cfg.swing > SwingDen

\* C11: a Note(...) call with a pitch outside 0..127, a velocity outside
\* 0..127 or end <= start raises and makes no note; a call that makes a
\* note makes it with exactly the pitch, start, end and velocity it was
\* given, so nothing is clamped into range.
C11_NoteConstructionValidates ==
    op = "Note" =>
        /\ (\/ cfg.pitch < 0 \/ cfg.pitch > 127
            \/ cfg.velocity < 0 \/ cfg.velocity > 127
            \/ cfg.end <= cfg.start) =>
               raised = "ValueError" /\ note_made = None
        /\ note_made # None =>
               /\ raised = "none"
               /\ note_made.pitch = cfg.pitch /\ note_made.velocity = cfg.velocity
               /\ note_made.start = cfg.start /\ note_made.end = cfg.end
        /\ (raised = "none") = (note_made # None)

\* C11 witness: a call was rejected for its velocity alone, one step above
\* the range.
C11_Witness ==
    /\ op = "Note" /\ raised = "ValueError" /\ note_made = None
    /\ cfg.velocity = 128
    /\ cfg.pitch = 60 /\ cfg.start = 0 /\ cfg.end > 0

Detected == op = "detect_chords"

\* Note n is one of the notes of chord k.
InChord(n, k) == \E i \in 1..Len(chords[k].notes) : chords[k].notes[i] = n

C13_ChordsInOnsetOrder ==
    Detected =>
        \A k \in 1..(Len(chords) - 1) :
            MinOf({chords[k].notes[i].start : i \in 1..Len(chords[k].notes)})
                <= MinOf({chords[k + 1].notes[i].start :
                            i \in 1..Len(chords[k + 1].notes)})

\* C13 witness: detection with arpeggio merging has returned two chords
\* that start at different times.
C13_Witness ==
    /\ Detected /\ cfg.merge_arpeggios
    /\ Len(chords) = 2
    /\ chords[1].notes[1].start # chords[2].notes[1].start

Identified == op = "identify_chord_type"

\* The chord's pitches and its intervals from the lowest pitch, folded
\* into one octave.
Pitches == {In[i].pitch : i \in 1..Len(In)}
Intervals == {(p - MinOf(Pitches)) % 12 : p \in Pitches}
PatternSet(t) == {CHORD_TYPES[t].pattern[k] : k \in 1..Len(CHORD_TYPES[t].pattern)}

\* C14: identify_chord_type returns the table name for every chord with at
\* least two distinct pitches whose set of (pitch - lowest pitch) mod 12 is
\* the pattern of that name, whatever octave doublings the chord has;
\* {60, 64, 67} is "major" and {60, 63, 67} is "minor".
C14_ExactPatternGivesItsName ==
    (Identified /\ Cardinality(Pitches) >= 2) =>
        /\ \A t \in 1..Len(CHORD_TYPES) :
               Intervals = PatternSet(t) => chord_type = CHORD_TYPES[t].name
        /\ Pitches = {60, 64, 67} => chord_type = "major"
        /\ Pitches = {60, 63, 67} => chord_type = "minor"

\* C14 witness: a C major triad with its root doubled at the octave has
\* been identified.
C14_Witness ==
    /\ Identified
    /\ Pitches = {60, 64, 67, 72}
    /\ Len(In) = 4
    /\ chord_type = "major"

\* The chord types of which the chord is an inversion: the intervals are
\* those of the pattern counted from one of its notes other than the root.
InversionsOf ==
    {t \in 1..Len(CHORD_TYPES) :
        \E r \in PatternSet(t) \ {0} :
            Intervals = {(q - r) % 12 : q \in PatternSet(t)}}

\* C15: a chord with at least two distinct pitches that matches no pattern
\* exactly but whose interval set is a cyclic rotation of a pattern is
\* reported as "<type> (inversion)"; "unknown" is returned only when no
\* rotation of any pattern matches.
C15_InversionsAreReported ==
    (/\ Identified
     /\ Cardinality(Pitches) >= 2
     /\ \A t \in 1..Len(CHORD_TYPES) : Intervals # PatternSet(t)) =>
        IF InversionsOf # {}
        THEN \E t \in InversionsOf : chord_type = Inversion(CHORD_TYPES[t].name)
        ELSE chord_type = "unknown"

\* adjust_difficulty has found the roll above the target level and has
\* simplified it with every option of the configuration on.
Simplified ==
    /\ op = "adjust_difficulty"
    /\ path = "simplify"
    /\ LevelIndex(cfg.target_level) < LevelIndex(analysed)
    /\ cfg.remove_fast_passages /\ cfg.simplify_chords
    /\ cfg.reduce_hand_stretches /\ cfg.remove_ornaments /\ cfg.simplify_rhythms

Target == LEVEL_PARAMS[cfg.target_level]

\* C16: after a simplification with all options on, the largest hand
\* stretch of the returned roll, computed as the analysis computes it, is
\* at most the max_hand_stretch of the target level.
C16_StretchWithinTarget ==
    Simplified => _get_max_hand_stretch(Out(1)) <= Target.max_hand_stretch

\* C17: after a simplification with all options on, the largest number of
\* simultaneous notes of the returned roll, computed as the analysis
\* computes it, is at most the max_simultaneous_notes of the target level.
C17_SimultaneousWithinTarget ==
    Simplified =>
        _get_max_simultaneous_notes(Out(1)) <= Target.max_simultaneous_notes

\* C18: after a simplification with all options on, the notes per second
\* of the returned roll (note count over the latest note end) is at most
\* the max_notes_per_second of the target level.
C18_DensityWithinTarget ==
    (Simplified /\ Out(1) # <<>>) =>
        Len(Out(1)) * TicksPerSecond
            <= Target.max_notes_per_second * get_duration(Out(1))

Adjusted == op = "adjust_difficulty"

\* The thresholds of a level that the analysed roll meets: its notes per
\* second (0 for a roll of no length), its largest chord and its largest
\* stretch.
Meets(level, threshold) ==
    CASE threshold = "max_notes_per_second" ->
             get_duration(In) > 0 =>
                 Len(In) * TicksPerSecond
                     <= LEVEL_PARAMS[level].max_notes_per_second * get_duration(In)
      [] threshold = "max_simultaneous_notes" ->
             _get_max_simultaneous_notes(In)
                 <= LEVEL_PARAMS[level].max_simultaneous_notes
      [] threshold = "max_hand_stretch" ->
             _get_max_hand_stretch(In) <= LEVEL_PARAMS[level].max_hand_stretch

ThresholdsMet(level) ==
    {threshold \in {"max_notes_per_second", "max_simultaneous_notes",
                    "max_hand_stretch"} : Meets(level, threshold)}

Points(level) == Cardinality(ThresholdsMet(level))

\* C19: the analysis gives each level one point per threshold the roll
\* meets, a score of 0 to 3, and returns the lowest of the levels that
\* have the highest score.
C19_LowestLevelOfBestScore ==
    Adjusted =>
        \E l \in 1..Len(LevelOrder) :
            /\ analysed = LevelOrder[l]
            /\ \A j \in 1..Len(LevelOrder) :
                   Points(LevelOrder[j]) <= Points(LevelOrder[l])
            /\ \A j \in 1..(l - 1) :
                   Points(LevelOrder[j]) < Points(LevelOrder[l])

\* C19 witness: a roll has been analysed as intermediate on a score of 2
\* that the higher levels share and the lower ones miss.
C19_Witness ==
    /\ Adjusted
    /\ analysed = "intermediate"
    /\ Points("intermediate") = 2
    /\ Points("expert") = 2
    /\ Points("easy") = 1

HandsAssigned == op = "assign_hands"

\* C21: every hand assignment of a cluster, after the redistribution
\* post-pass, carries a difficulty within [0, 1], for every cluster and
\* every configuration.
C21_DifficultyWithinUnit ==
    HandsAssigned =>
        \A g \in 1..Len(assigned) : \A i \in 1..Len(assigned[g]) :
            /\ 0 <= assigned[g][i].difficulty
            /\ assigned[g][i].difficulty <= DifficultyDen

\* C22: the final assignment of every cluster of two or more notes gives
\* at least one note to the left hand and at least one to the right hand,
\* whatever the pitches and max_notes_per_hand.
C22_BothHandsPlay ==
    HandsAssigned =>
        \A g \in 1..Len(assigned) :
            Len(assigned[g]) >= 2 =>
                /\ \E i \in 1..Len(assigned[g]) : assigned[g][i].hand = "left"
                /\ \E i \in 1..Len(assigned[g]) : assigned[g][i].hand = "right"

\* Chords have been detected in the roll that a 16th-grid quantizer of
\* full strength returned for the scale.
ScaleQuantizedAndDetected ==
    /\ Detected
    /\ origin = <<"quantize">>
    /\ quantizer.grid_resolution = "16th" /\ FullStrength
    /\ cfg.min_chord_size = 2

\* C23: for the 8-note ascending C major scale at 120 BPM with onsets
\* 0.5 s apart, quantizing to the 16th grid at strength 1 and then
\* detecting chords with min_chord_size 2 returns no chord; each of the
\* eight notes is an onset group of its own.
C23_ScaleHasNoChords ==
    ScaleQuantizedAndDetected =>
        /\ chords = <<>>
        /\ Len(In) = 8
        /\ \A i \in 1..Len(In) : In[i].pitch = ScalePitches[i]
        /\ \A i \in 1..Len(In) : \A j \in 1..Len(In) :
               i # j => Abs(In[i].start - In[j].start) > cfg.simultaneity_threshold
        /\ Len(_group_by_onset(cfg, In, <<>>)) = 8

\* C23 witness: the scale as create_simple_melody writes it (notes 0.4 s
\* long) went through the default quantizer, which left the onsets on the
\* half seconds and set the note lengths to thirteen grid steps, and
\* through chord detection.
C23_Witness ==
    /\ ScaleQuantizedAndDetected
    /\ quantizer = QuantizationConfig("16th", StrengthDen, 1, TRUE, 0)
    /\ roll.tempo = 120
    /\ \A i \in 1..Len(In) :
           /\ In[i].start = (i - 1) * Sec(1, 2)
           /\ In[i].end = In[i].start + 13 * GridDuration(quantizer, roll.tempo)
    /\ chords = <<>>

\* The chords found before any merging, and the runs they form: chord
\* k + 1 is linked to chord k when it starts within arpeggio_threshold of
\* the start of chord k; a run is a longest stretch of linked chords.
Unmerged == detect_chords([cfg EXCEPT !.merge_arpeggios = FALSE], In)

Linked(k) ==
    ChordStart(Unmerged[k + 1]) - ChordStart(Unmerged[k]) <= cfg.arpeggio_threshold

RunHeads == {k \in 1..Len(Unmerged) : k = 1 \/ ~Linked(k - 1)}

RunHead(r) == CHOOSE k \in RunHeads : Cardinality({j \in RunHeads : j <= k}) = r

RunLast(r) ==
    CHOOSE e \in RunHead(r)..Len(Unmerged) :
        /\ \A k \in RunHead(r)..(e - 1) : Linked(k)
        /\ e = Len(Unmerged) \/ ~Linked(e)

\* The notes of a run as the merge is to leave them: every note of every
\* chord of the run, moved to the start of the run's first chord.
RunNotes(r) ==
    LET members == Concat([k \in 1..(RunLast(r) - RunHead(r) + 1) |->
                              Unmerged[RunHead(r) + k - 1].notes])
    IN  SeqToBag([i \in 1..Len(members) |->
                     [members[i] EXCEPT !.start = ChordStart(Unmerged[RunHead(r)])]])

\* C24: with merge_arpeggios on, every longest run of consecutive detected
\* chords, each starting within arpeggio_threshold of the start of the
\* chord before it, is folded into one chord that holds all notes of the
\* run, each with the earliest start of the run and its own pitch, end and
\* velocity; chords farther apart stay separate, a chord alone as it was.
C24_ArpeggioRunsAreFolded ==
    (Detected /\ cfg.merge_arpeggios) =>
        /\ Len(chords) = Cardinality(RunHeads)
        /\ \A r \in 1..Len(chords) :
               IF RunLast(r) = RunHead(r)
               THEN chords[r] = Unmerged[RunHead(r)]
               ELSE SeqToBag(chords[r].notes) = RunNotes(r)

\* C24 witness: three chords, the third within the threshold of the second
\* but not of the first, have been folded into one chord of six notes.
C24_Witness ==
    /\ Detected /\ cfg.merge_arpeggios
    /\ Len(Unmerged) = 3
    /\ ChordStart(Unmerged[3]) - ChordStart(Unmerged[1]) > cfg.arpeggio_threshold
    /\ Len(chords) = 1
    /\ Len(chords[1].notes) = 6

VoicesSeparated == op = "separate_voices"

\* Note n sounds in the i-th returned roll.
InRoll(n, i) == \E k \in 1..Len(Out(i)) : Sounding(Out(i)[k]) = Sounding(n)

\* The notes of a window that did not become melody, and the lowest pitch
\* among them.
NonMelody(window) ==
    {window[i] : i \in {j \in 1..Len(window) : ~InRoll(window[j], 1)}}

LowestPitch(notes) == MinOf({n.pitch : n \in notes})

\* C25: in a window of two or more notes, the lowest-pitched note that is
\* not a melody candidate is bass, unless its pitch is more than 12
\* semitones above bass_pitch_threshold, when it is harmony; every other
\* non-melody note of the window is harmony.  (Of several notes on the
\* lowest pitch, one has to be the bass.)
C25_LowestNonMelodyIsBass ==
    VoicesSeparated =>
        \A w \in 1..Len(_create_time_windows(In)) :
            LET window == _create_time_windows(In)[w]
                others == NonMelody(window)
                lowest == {n \in others : n.pitch = LowestPitch(others)}
            IN  (Len(window) >= 2 /\ others # {}) =>
                    /\ \A n \in others \ lowest : InRoll(n, 2) /\ ~InRoll(n, 3)
                    /\ IF LowestPitch(others) > cfg.bass_pitch_threshold + 12
                       THEN \A n \in lowest : InRoll(n, 2) /\ ~InRoll(n, 3)
                       ELSE \E n \in lowest : InRoll(n, 3) /\ ~InRoll(n, 2)

\* C26: after the density reduction for a target level, every one-second
\* window [t, t + 1) slid over the output holds at most the level's
\* max_notes_per_second onsets.  (A window with the most onsets can be
\* taken to start at an onset.)
C26_SlidingWindowsWithinCap ==
    op = "_remove_fast_notes" =>
        \A i \in 1..Len(step_notes) :
            Cardinality({j \in 1..Len(step_notes) :
                            /\ step_notes[i].start <= step_notes[j].start
                            /\ step_notes[j].start < step_notes[i].start + Sec(1, 1)})
                <= Target.max_notes_per_second

\* The members of {1/16, 1/8, 1/4, 1/2, 1} beat at the tempo of the roll.
BeatFractions == {BeatDuration(roll.tempo) \div k : k \in {16, 8, 4, 2, 1}}

\* C27: after rhythm simplification every note has for duration the
\* member of {1/16, 1/8, 1/4, 1/2, 1} beat, at the tempo of the roll,
\* nearest to the duration it had; its start, pitch and velocity are
\* unchanged and no note is added or removed.
C27_DurationsSnapToBeatFractions ==
    op = "_simplify_rhythms" =>
        /\ Len(step_notes) = Len(In)
        /\ \A i \in 1..Len(In) :
               /\ step_notes[i].pitch = In[i].pitch
               /\ step_notes[i].start = In[i].start
               /\ step_notes[i].velocity = In[i].velocity
               /\ duration(step_notes[i]) \in BeatFractions
               /\ \A f \in BeatFractions :
                      Abs(duration(step_notes[i]) - duration(In[i]))
                          <= Abs(f - duration(In[i]))

\* The assignments of cluster g as the split made them, before the
\* post-pass, in the order of the final assignments (ascending pitch).
AfterSplit(g) ==
    SplitAssignments(cfg, [i \in 1..Len(assigned[g]) |-> assigned[g][i].note])

\* The notes of cluster g that the split gave to the hand and that the
\* post-pass has taken from it, and those it has left to it.
Left_(g, hand) ==
    {i \in 1..Len(assigned[g]) :
        AfterSplit(g)[i].hand = hand /\ assigned[g][i].hand # hand}

Stayed(g, hand) ==
    {i \in 1..Len(assigned[g]) :
        AfterSplit(g)[i].hand = hand /\ assigned[g][i].hand = hand}

\* C28: a hand that holds n > max_notes_per_hand notes of a cluster after
\* the split holds exactly min(2, n) fewer after the post-pass; the lowest
\* notes leave an overloaded right hand, the highest an overloaded left
\* hand, and the difficulty of every moved note is raised by 0.1.
C28_OverloadedHandGivesTwo ==
    HandsAssigned =>
        \A g \in 1..Len(assigned) : \A hand \in {"left", "right"} :
            LET n == Count(AfterSplit(g), hand)
            IN  (Len(assigned[g]) >= 2 /\ n > cfg.max_notes_per_hand) =>
                    /\ Count(assigned[g], hand) = n - Min(2, n)
                    /\ \A i \in Left_(g, hand) : \A j \in Stayed(g, hand) :
                           IF hand = "right"
                           THEN assigned[g][i].note.pitch <= assigned[g][j].note.pitch
                           ELSE assigned[g][i].note.pitch >= assigned[g][j].note.pitch
                    /\ \A i \in Left_(g, hand) :
                           assigned[g][i].difficulty
                               = AfterSplit(g)[i].difficulty + DifficultyDen \div 10

\* C29: in every cluster, after the split and the post-pass, each note of
\* the left hand has a pitch less than or equal to the pitch of each note
\* of the right hand.
C29_HandsDoNotCross ==
    HandsAssigned =>
        \A g \in 1..Len(assigned) :
            \A i \in 1..Len(assigned[g]) : \A j \in 1..Len(assigned[g]) :
                (assigned[g][i].hand = "left" /\ assigned[g][j].hand = "right") =>
                    assigned[g][i].note.pitch <= assigned[g][j].note.pitch

\* C29 witness: the post-pass has moved two of three right-hand notes of a
\* cluster to the left hand and left the highest to the right hand.
C29_Witness ==
    /\ HandsAssigned
    /\ Len(assigned) = 1 /\ Len(assigned[1]) = 4
    /\ Count(AfterSplit(1), "right") = 3
    /\ Count(assigned[1], "right") = 1
    /\ assigned[1][4].hand = "right"
    /\ assigned[1][3].note.pitch < assigned[1][4].note.pitch

\* The (pitch, start, velocity) triples of a note list, as a multiset.
Triples(notes) ==
    SeqToBag([i \in 1..Len(notes) |->
                 <<notes[i].pitch, notes[i].start, notes[i].velocity>>])

\* C30: simplification removes notes or changes their length, and never
\* adds or duplicates one: the multiset of (pitch, start, velocity) of the
\* roll that the simplification path of adjust_difficulty returns is
\* contained in that of the input roll, also for chord members whose onset
\* is exactly the simultaneity threshold after the start of the chord.
C30_SimplificationAddsNoNote ==
    (Adjusted /\ path = "simplify") => Triples(Out(1)) \sqsubseteq Triples(In)

=============================================================================
